---------------------------- MODULE Spec2Model ----------------------------
(***************************************************************************)
(* Model of scripts/helper_functions.py (tokenizer, stopword filter,       *)
(* corpus preprocessing, parallelize, grid_search, success_rates) and of   *)
(* the command-line dispatcher of scripts/NLPAnalysis.py, of               *)
(* myersBriggsNLPAnalysis.                                                 *)
(*                                                                         *)
(* A text is a sequence of one-character strings; a token is such a        *)
(* sequence too.  The regular expressions of the source are modelled by    *)
(* what Python's backtracking matcher returns for them: for each           *)
(* alternative of token_re, the length of its match at a position (0: no   *)
(* match), the alternatives tried in the order of regex_str.               *)
(***************************************************************************)
EXTENDS Integers, Sequences, FiniteSets, TLC

(***************************************************************************)
(* Character classes.  re.IGNORECASE makes [a-z] match both cases.         *)
(***************************************************************************)
LowerLetters == {"a", "b", "d", "h", "i", "o", "p", "s", "t", "x"}
UpperLetters == {"A", "B", "D", "H", "I", "O", "P", "S", "T", "X"}
Letters == LowerLetters \cup UpperLetters
Digits == {"0", "1", "5"}
WordChars == Letters \cup Digits \cup {"_"}
Whitespace == {" ", "\t", "\n"}

\* str.lower() on one character
lower_char(c) ==
    CASE c = "A" -> "a" [] c = "B" -> "b" [] c = "D" -> "d" [] c = "H" -> "h"
      [] c = "I" -> "i" [] c = "O" -> "o" [] c = "P" -> "p" [] c = "S" -> "s"
      [] c = "T" -> "t" [] c = "X" -> "x" [] OTHER -> c

\* str.lower() on a string
lower(token) == [k \in 1..Len(token) |-> lower_char(token[k])]

\* [:=;]   [oO\-]   [D\)\]\(\]/\\OpPd] under IGNORECASE
Eyes == {":", "=", ";"}
Nose == {"o", "O", "-"}
Mouth == {"D", "d", ")", "]", "(", "/", "\\", "O", "o", "p", "P"}

\* [\w\'_\-] of the hashtag pattern and [a-z\'\-_] of the dashed-word pattern
HashBody == WordChars \cup {"'", "-"}
DashBody == Letters \cup {"'", "-", "_"}

\* [a-z] | [0-9] | [$-_@.&amp;+] | [!*\(\),] : the range $-_ is ASCII 0x24..0x5F
UrlChars ==
    Letters \cup Digits \cup
    {"$", "%", "&", "'", "(", ")", "*", "+", ",", "-", ".", "/", ":", ";", "<",
     "=", ">", "?", "@", "[", "\\", "]", "^", "_", "!"}

(***************************************************************************)
(* Helpers of the matcher.                                                 *)
(***************************************************************************)
\* the length of the longest run of characters of S that starts at s[i]
RunLen(s, i, S) ==
    CHOOSE k \in 0..(Len(s) - i + 1) :
        /\ \A j \in i..(i + k - 1) : s[j] \in S
        /\ (i + k > Len(s) \/ s[i + k] \notin S)

\* the length of the longest run of characters other than c from s[i]
RunLenNot(s, i, c) ==
    CHOOSE k \in 0..(Len(s) - i + 1) :
        /\ \A j \in i..(i + k - 1) : s[j] # c
        /\ (i + k > Len(s) \/ s[i + k] = c)

\* the last position of i..j holding a character of S, 0 when there is none
LastIn(s, i, j, S) ==
    LET P == {p \in i..j : s[p] \in S}
    IN  IF P = {} THEN 0 ELSE CHOOSE p \in P : \A q \in P : q <= p

\* s holds the literal lit (lower case) at position i, case-insensitively
HasAt(s, i, lit) ==
    /\ i + Len(lit) - 1 <= Len(s)
    /\ \A k \in 1..Len(lit) : lower_char(s[i + k - 1]) = lit[k]

(***************************************************************************)
(* The alternatives of regex_str, in order: the match length at s[i].      *)
(***************************************************************************)
\* emoticons_str: eyes, optional nose (greedy, given back on failure), mouth
M_emoticon(s, i) ==
    IF i <= Len(s) /\ s[i] \in Eyes
    THEN IF i + 2 <= Len(s) /\ s[i + 1] \in Nose /\ s[i + 2] \in Mouth THEN 3
         ELSE IF i + 1 <= Len(s) /\ s[i + 1] \in Mouth THEN 2
         ELSE 0
    ELSE 0

\* <[^>]+> : [^>] matches whitespace too
M_html(s, i) ==
    IF i <= Len(s) /\ s[i] = "<"
    THEN LET r == RunLenNot(s, i + 1, ">")
         IN  IF r >= 1 /\ i + 1 + r <= Len(s) THEN r + 2 ELSE 0
    ELSE 0

\* (?:@[\w_]+)
M_mention(s, i) ==
    IF i <= Len(s) /\ s[i] = "@"
    THEN LET r == RunLen(s, i + 1, WordChars)
         IN  IF r >= 1 THEN r + 1 ELSE 0
    ELSE 0

\* (?:\#+[\w_]+[\w\'_\-]*[\w_]+) : the match ends at the last word character
\* of the body, which must be at least two characters long
M_hashtag(s, i) ==
    LET h == RunLen(s, i, {"#"})
        start == i + h
        r == RunLen(s, start, HashBody)
        last == LastIn(s, start, start + r - 1, WordChars)
    IN  IF h >= 1 /\ start <= Len(s) /\ s[start] \in WordChars /\ last >= start + 1
        THEN last - i + 1
        ELSE 0

\* http[s]?://(?:...)+
M_url(s, i) ==
    LET base == IF HasAt(s, i, <<"h", "t", "t", "p", "s", ":", "/", "/">>) THEN 8
                ELSE IF HasAt(s, i, <<"h", "t", "t", "p", ":", "/", "/">>) THEN 7
                ELSE 0
        r == IF base = 0 THEN 0 ELSE RunLen(s, i + base, UrlChars)
    IN  IF base > 0 /\ r >= 1 THEN base + r ELSE 0

\* (?:\d+,?)+ : digit runs, each with an optional comma after it
RECURSIVE NumHead(_, _)
NumHead(s, i) ==
    LET d == RunLen(s, i, Digits)
        c == IF i + d <= Len(s) /\ s[i + d] = "," THEN 1 ELSE 0
    IN  IF d = 0 THEN 0 ELSE d + c + NumHead(s, i + d + c)

\* (?:(?:\d+,?)+(?:\.?\d+)?)
M_number(s, i) ==
    LET h == NumHead(s, i)
        p == i + h
        t == IF h > 0 /\ p + 1 <= Len(s) /\ s[p] = "." /\ s[p + 1] \in Digits
             THEN 1 + RunLen(s, p + 1, Digits)
             ELSE 0
    IN  h + t

\* (?:[a-z][a-z\'\-_]+[a-z]) : ends at the last letter of the run, which is
\* at least the third character
M_dashword(s, i) ==
    IF i <= Len(s) /\ s[i] \in Letters
    THEN LET r == RunLen(s, i, DashBody)
             last == LastIn(s, i, i + r - 1, Letters)
         IN  IF last >= i + 2 THEN last - i + 1 ELSE 0
    ELSE 0

\* (?:[\w_]+)
M_word(s, i) == RunLen(s, i, WordChars)

\* a faulty M_any: regex_str without its last alternative
M_any_missing(s, i) == 0

\* (?:\S)
M_any(s, i) == IF i <= Len(s) /\ s[i] \notin Whitespace THEN 1 ELSE 0

\* token_re.match at position i: the first alternative that matches wins
token_re(s, i) ==
    CASE M_emoticon(s, i) > 0 -> M_emoticon(s, i)
      [] M_html(s, i) > 0 -> M_html(s, i)
      [] M_mention(s, i) > 0 -> M_mention(s, i)
      [] M_hashtag(s, i) > 0 -> M_hashtag(s, i)
      [] M_url(s, i) > 0 -> M_url(s, i)
      [] M_number(s, i) > 0 -> M_number(s, i)
      [] M_dashword(s, i) > 0 -> M_dashword(s, i)
      [] M_word(s, i) > 0 -> M_word(s, i)
      [] OTHER -> M_any(s, i)

\* token_re.findall(tweet): scan left to right, skipping a position where
\* nothing matches
RECURSIVE findall_from(_, _)
findall_from(s, i) ==
    IF i > Len(s) THEN <<>>
    ELSE LET m == token_re(s, i)
         IN  IF m = 0 THEN findall_from(s, i + 1)
             ELSE <<SubSeq(s, i, i + m - 1)>> \o findall_from(s, i + m)

findall(tweet) == findall_from(tweet, 1)

\* emoticon_re.search(token): ^ emoticons_str $
emoticon_re(token) == Len(token) > 0 /\ M_emoticon(token, 1) = Len(token)

\* check_emoticons(tokens, lowercase = False)
check_emoticons(tokens, lowercase) ==
    IF lowercase
    THEN [k \in 1..Len(tokens) |->
            IF emoticon_re(tokens[k]) THEN tokens[k] ELSE lower(tokens[k])]
    ELSE tokens


(***************************************************************************)
(* The stopword filter.  The list of nltk's English stopwords is all lower *)
(* case; the words of it that the model's alphabet can spell stand for it. *)
(***************************************************************************)
\* stopwords.words('english')
english_stopwords ==
    {<<"a">>, <<"i">>, <<"i", "t">>, <<"i", "s">>, <<"t", "o">>, <<"d", "o">>,
     <<"t", "h", "a", "t">>, <<"t", "h", "i", "s">>}

\* list(string.punctuation), but for the backquote, which the model's
\* alphabet leaves out
punctuation ==
    {<<c>> : c \in {"!", "\"", "#", "$", "%", "&", "'", "(", ")", "*", "+", ",",
                    "-", ".", "/", ":", ";", "<", "=", ">", "?", "@", "[", "\\",
                    "]", "^", "_", "{", "|", "}", "~"}}

\* a faulty clean_words_of: the terms are removed from the list while it is
\* iterated, so the term after a removed one is skipped
RECURSIVE clean_words_skipping(_, _)
clean_words_skipping(text, stops) ==
    IF text = <<>> THEN <<>>
    ELSE IF Head(text) \in stops
         THEN IF Len(text) = 1 THEN <<>>
              ELSE <<text[2]>> \o clean_words_skipping(SubSeq(text, 3, Len(text)), stops)
         ELSE <<Head(text)>> \o clean_words_skipping(Tail(text), stops)

\* [term for term in text if term not in stop_list]
clean_words_of(text, stops) ==
    LET keep(term) == term \notin stops IN SelectSeq(text, keep)

\* remove_stopwords(text) where the stopwords corpus is installed
remove_stopwords(text) == clean_words_of(text, english_stopwords \cup punctuation)

(***************************************************************************)
(* State.  Each specification below runs one part of the program and       *)
(* leaves the variables of the other parts at rest.                        *)
(***************************************************************************)
VARIABLES
    filter_stopwords,   \* tokenize_data's argument
    \* the body of tokenize_data's loop, on one tweet
    tweet,              \* the post being tokenized
    tokenized_tweets,   \* its tokens so far
    token_list,         \* the pairs appended so far
    tpc,                \* the position in the body of the loop
    \* remove_stopwords
    installed,          \* nltk's data holds corpora/stopwords
    text,               \* the argument of the call
    stop_list,          \* the list line 98 builds
    clean_words,        \* the list line 100 builds
    previous,           \* what the call before this one returned
    downloads,          \* nltk.download calls of the call under way
    loads,              \* how many times the process has loaded the list
    calls,              \* calls begun
    rpc,                \* the position in remove_stopwords
    \* parallelize(tokenize_data, df) and tokenize_data(df, filter_stopwords)
    df,                 \* the dataset: a sequence of rows [type, posts]
    partitions,         \* cpu_count()
    df_subsets,         \* np.array_split(df, partitions)
    results,            \* the list pool.map builds, one slot per subset
    finished,           \* the subsets whose worker has returned
    failed,             \* the subsets whose worker has raised
    overtaken,          \* a worker returned before the worker of an earlier subset
    end_df,             \* what parallelize returns
    token_df,           \* what a direct call of tokenize_data returns
    ppc,                \* the position in parallelize
    \* grid_search
    parameters,         \* the grid: parameter name -> list of values
    mean_score,         \* the mean validation score of each candidate
    jobs,               \* n_jobs
    dispatched,         \* candidates handed to a worker so far
    running,            \* candidates under evaluation
    grid_scores_,       \* gs_clf.grid_scores_
    out_of_order,       \* a candidate's evaluation ended before an earlier one's
    best_parameters,    \* line 206
    score,              \* line 206
    gpc,                \* the position in grid_search
    \* the command-line dispatcher of NLPAnalysis.py
    argv,               \* sys.argv: the script's name, then the arguments
    handler,            \* the function the dispatcher called
    message,            \* what the dispatcher itself printed
    exit_status,        \* the exit status of the process
    cpc,                \* the position in the dispatcher
    \* success_rates
    labels,             \* the actual labels
    predictions,        \* the predicted labels
    return_results,     \* the third argument
    success,            \* the column line 300 builds
    pending,            \* the groups of groupby('label') not iterated yet
    fracs,              \* the mapping line 304 fills
    name,               \* the loop variable name
    frac,               \* the loop variable frac
    lines,              \* the lines printed
    returned,           \* what success_rates returns
    spc                 \* the position in success_rates

tweetVars == <<tweet, tokenized_tweets, token_list, tpc>>
stopVars ==
    <<installed, text, stop_list, clean_words, previous, downloads, loads, calls, rpc>>
parVars ==
    <<df, partitions, df_subsets, results, finished, failed, overtaken, end_df, token_df,
      ppc>>
gridVars ==
    <<parameters, mean_score, jobs, dispatched, running, grid_scores_,
      out_of_order, best_parameters, score, gpc>>

cliVars == <<argv, handler, message, exit_status, cpc>>
rateVars ==
    <<labels, predictions, return_results, success, pending, fracs, name, frac, lines,
      returned, spc>>
vars == <<filter_stopwords, tweetVars, stopVars, parVars, gridVars, cliVars, rateVars>>

TweetOff ==
    tweet = <<>> /\ tokenized_tweets = <<>> /\ token_list = <<>> /\ tpc = "off"

StopOff ==
    /\ installed = TRUE /\ text = <<>> /\ stop_list = {} /\ clean_words = <<>>
    /\ previous = <<>> /\ downloads = 0 /\ loads = 0 /\ calls = 0 /\ rpc = "off"

ParOff ==
    /\ df = <<>> /\ partitions = 0 /\ df_subsets = <<>> /\ results = <<>>
    /\ finished = {} /\ failed = {} /\ overtaken = FALSE /\ end_df = <<>>
    /\ token_df = <<>> /\ ppc = "off"

GridOff ==
    /\ parameters = <<>> /\ mean_score = <<>> /\ jobs = 0 /\ dispatched = 0
    /\ running = {} /\ grid_scores_ = <<>> /\ out_of_order = FALSE
    /\ best_parameters = <<>> /\ score = 0
    /\ gpc = "off"

CliOff ==
    /\ argv = <<>> /\ handler = "none" /\ message = "" /\ exit_status = 0
    /\ cpc = "off"

RateOff ==
    /\ labels = <<>> /\ predictions = <<>> /\ return_results = FALSE
    /\ success = <<>> /\ pending = <<>> /\ fracs = <<>> /\ name = "unbound"
    /\ frac = <<>> /\ lines = <<>> /\ returned = <<>> /\ spc = "off"

(***************************************************************************)
(* SpecTweet: the body of tokenize_data's loop over the tweets of a row,   *)
(* lines 143-157, on one tweet, with the stopwords corpus installed.       *)
(***************************************************************************)
\* a tweet is at most MaxPieces pieces of TweetPieces
MaxPieces == 3

TweetPieces ==
    {<<":">>, <<"D">>, <<"o">>, <<"-">>, <<")">>, <<"<">>, <<">">>, <<" ">>,
     <<"@">>, <<"#">>, <<"h", "t", "t", "p", ":", "/", "/">>, <<"a">>, <<"1">>,
     <<".">>, <<",">>, <<"'">>}

RECURSIVE TweetsOf(_)
TweetsOf(n) ==
    IF n = 0 THEN {<<>>}
    ELSE LET shorter == TweetsOf(n - 1)
         IN  shorter \cup {t \o p : t \in shorter, p \in TweetPieces}

InitTweet ==
    /\ filter_stopwords \in BOOLEAN
    /\ tweet \in TweetsOf(MaxPieces)
    /\ tokenized_tweets = <<>>
    /\ token_list = <<>>
    /\ tpc = "tweet"
    /\ StopOff /\ ParOff /\ GridOff /\ CliOff /\ RateOff

\* line 146
Findall ==
    /\ tpc = "tweet"
    /\ tokenized_tweets' = findall(tweet)
    /\ tpc' = "tokenized"
    /\ UNCHANGED <<filter_stopwords, tweet, token_list, stopVars, parVars, gridVars,
            cliVars, rateVars>>

\* line 149: lowercase keeps its default, False
CheckEmoticons ==
    /\ tpc = "tokenized"
    /\ tokenized_tweets' = check_emoticons(tokenized_tweets, FALSE)
    /\ tpc' = "checked"
    /\ UNCHANGED <<filter_stopwords, tweet, token_list, stopVars, parVars, gridVars,
            cliVars, rateVars>>

\* lines 152-154
RemoveStopwords ==
    /\ tpc = "checked"
    /\ filter_stopwords
    /\ tokenized_tweets' = remove_stopwords(tokenized_tweets)
    /\ tpc' = "filtered"
    /\ UNCHANGED <<filter_stopwords, tweet, token_list, stopVars, parVars, gridVars,
            cliVars, rateVars>>

\* line 157
AppendPair ==
    /\ \/ tpc = "checked" /\ ~filter_stopwords
       \/ tpc = "filtered"
    /\ token_list' = Append(token_list, tokenized_tweets)
    /\ tpc' = "appended"
    /\ UNCHANGED <<filter_stopwords, tweet, tokenized_tweets, stopVars, parVars,
                   gridVars, cliVars, rateVars>>

NextTweet == Findall \/ CheckEmoticons \/ RemoveStopwords \/ AppendPair

SpecTweet == InitTweet /\ [][NextTweet]_vars

(***************************************************************************)
(* SpecStop: calls of remove_stopwords(text), lines 82-101, one after      *)
(* another in one process.  nltk.data.find raises LookupError when the     *)
(* corpus is not installed; nltk.download installs it or, when the fetch   *)
(* fails, returns False; stopwords.words reads the corpus, and raises      *)
(* LookupError when it is not installed.                                   *)
(***************************************************************************)
MaxCalls == 2
MaxTokens == 2

Vocabulary == {<<"a">>, <<"x">>, <<".">>, <<"i", "t">>}

RECURSIVE TokenLists(_)
TokenLists(n) ==
    IF n = 0 THEN {<<>>}
    ELSE LET shorter == TokenLists(n - 1)
         IN  shorter \cup {Append(t, w) : t \in shorter, w \in Vocabulary}

\* line 95: TRUE when found, FALSE for LookupError
nltk_data_find(inst) == inst

\* a faulty stopwords_words: a corpus that is not installed reads as the
\* empty list
stopwords_words_silent(inst) ==
    [raised |-> FALSE, words |-> IF inst THEN english_stopwords ELSE {}]

\* line 98, stopwords.words('english'): the list, or LookupError
stopwords_words(inst) ==
    IF inst THEN [raised |-> FALSE, words |-> english_stopwords]
    ELSE [raised |-> TRUE, words |-> {}]

InitStop ==
    /\ installed \in BOOLEAN
    /\ text = <<>> /\ stop_list = {} /\ clean_words = <<>> /\ previous = <<>>
    /\ downloads = 0 /\ loads = 0 /\ calls = 0
    /\ rpc = "idle"
    /\ filter_stopwords = TRUE
    /\ TweetOff /\ ParOff /\ GridOff /\ CliOff /\ RateOff

\* the caller calls remove_stopwords(t)
Call ==
    /\ rpc \in {"idle", "returned", "raised"}
    /\ calls < MaxCalls
    /\ \E t \in TokenLists(MaxTokens) : text' = t
    /\ calls' = calls + 1
    /\ downloads' = 0
    /\ stop_list' = {}
    /\ clean_words' = <<>>
    /\ previous' = clean_words
    /\ rpc' = "find"
    /\ UNCHANGED <<installed, loads, filter_stopwords, tweetVars, parVars, gridVars,
            cliVars, rateVars>>

\* lines 94-96
Find ==
    /\ rpc = "find"
    /\ rpc' = IF nltk_data_find(installed) THEN "words" ELSE "download"
    /\ UNCHANGED <<installed, text, stop_list, clean_words, previous, downloads, loads,
                   calls, filter_stopwords, tweetVars, parVars, gridVars,
                   cliVars, rateVars>>

\* line 97: the fetch succeeds or fails; either way the call goes on
Download ==
    /\ rpc = "download"
    /\ \E ok \in BOOLEAN : installed' = ok
    /\ downloads' = downloads + 1
    /\ rpc' = "words"
    /\ UNCHANGED <<text, stop_list, clean_words, previous, loads, calls,
                   filter_stopwords, tweetVars, parVars, gridVars, cliVars, rateVars>>

\* line 98
Words ==
    /\ rpc = "words"
    /\ LET r == stopwords_words(installed)
       IN  IF r.raised
           THEN rpc' = "raised" /\ UNCHANGED <<stop_list, loads>>
           ELSE /\ stop_list' = r.words \cup punctuation
                /\ loads' = loads + 1
                /\ rpc' = "filter"
    /\ UNCHANGED <<installed, text, clean_words, previous, downloads, calls,
                   filter_stopwords, tweetVars, parVars, gridVars, cliVars, rateVars>>

\* lines 100-101
Filter ==
    /\ rpc = "filter"
    /\ clean_words' = clean_words_of(text, stop_list)
    /\ rpc' = "returned"
    /\ UNCHANGED <<installed, text, stop_list, previous, downloads, loads, calls,
                   filter_stopwords, tweetVars, parVars, gridVars, cliVars, rateVars>>

NextStop == Call \/ Find \/ Download \/ Words \/ Filter

SpecStop == InitStop /\ [][NextStop]_vars

(***************************************************************************)
(* tokenize_data and parallelize as functions of their arguments.  A row   *)
(* is [type |-> label, posts |-> text]; a DataFrame is the sequence of its *)
(* rows, and the DataFrame tokenize_data returns is the sequence of its    *)
(* pairs <<type, tokens>>.                                                 *)
(***************************************************************************)
\* the first position at which s holds '|||', 0 when it does not
FirstDelimiter(s) ==
    LET P == {p \in 1..(Len(s) - 2) : s[p] = "|" /\ s[p + 1] = "|" /\ s[p + 2] = "|"}
    IN  IF P = {} THEN 0 ELSE CHOOSE p \in P : \A q \in P : p <= q

\* line 136, row['posts'].split('|||'): the text of no delimiter, the empty
\* text too, is a list of one
RECURSIVE split(_)
split(s) ==
    LET p == FirstDelimiter(s)
    IN  IF p = 0 THEN <<s>>
        ELSE <<SubSeq(s, 1, p - 1)>> \o split(SubSeq(s, p + 3, Len(s)))

\* lines 146-154: the tokens of one tweet
tweet_tokens(tw, filter) ==
    LET checked == check_emoticons(findall(tw), FALSE)
    IN  IF filter THEN remove_stopwords(checked) ELSE checked

\* a faulty row_pairs: one pair for the row, of the tokens of its whole text
row_pairs_per_row(row, filter) == <<<<row.type, tweet_tokens(row.posts, filter)>>>>

\* a faulty row_pairs: a tweet that is empty is passed over
row_pairs_skip_empty(row, filter) ==
    LET tweets_split == split(row.posts)
        solid(tw) == tw # <<>>
        kept == SelectSeq(tweets_split, solid)
    IN  [k \in 1..Len(kept) |-> <<row.type, tweet_tokens(kept[k], filter)>>]

\* lines 136-157: the pairs one row appends to token_list
row_pairs(row, filter) ==
    LET tweets_split == split(row.posts)
    IN  [k \in 1..Len(tweets_split) |->
            <<row.type, tweet_tokens(tweets_split[k], filter)>>]

\* lines 131-164, tokenize_data(df, filter_stopwords)
RECURSIVE tokenize_data(_, _)
tokenize_data(d, filter) ==
    IF d = <<>> THEN <<>>
    ELSE row_pairs(Head(d), filter) \o tokenize_data(Tail(d), filter)

\* line 321, np.array_split(df, partitions): sections of len // partitions
\* rows, the first len % partitions of them one row longer
array_split(d, n) ==
    LET q == Len(d) \div n
        r == Len(d) % n
        first(k) == (k - 1) * q + (IF k - 1 < r THEN k - 1 ELSE r) + 1
        size(k) == q + (IF k <= r THEN 1 ELSE 0)
    IN  [k \in 1..n |-> SubSeq(d, first(k), first(k) + size(k) - 1)]

\* a posts field that holds no text: the missing value of pandas, a float
nan == <<"nan">>

\* line 136: a float has no split, so row['posts'].split raises
\* AttributeError at the first row whose posts is the missing value
tokenize_data_raises(d) == \E k \in DOMAIN d : d[k].posts = nan

\* a faulty map_raises: the exception of a worker is dropped
map_raises_never(raised) == FALSE

\* line 323, pool.map: once every worker has ended, the exception of a worker
\* that raised is raised again in the caller
map_raises(raised) == raised # {}

\* a faulty map_slot: the results kept in the order the workers return
map_slot_as_completed(i, ndone) == ndone + 1

\* line 323, pool.map: the result of the i-th subset is the i-th of the list,
\* whichever worker returns first
map_slot(i, ndone) == i

\* line 323, pd.concat: the frames one after another
RECURSIVE concat(_)
concat(frames) ==
    IF frames = <<>> THEN <<>> ELSE Head(frames) \o concat(Tail(frames))

(***************************************************************************)
(* Spec: a direct call token_df = tokenize_data(df, filter_stopwords), or  *)
(* end_df = parallelize(tokenize_data, df), whose workers return in any    *)
(* order; tokenize_data raises on a row whose posts is the missing value.  *)
(***************************************************************************)
MaxRecords == 3
MaxCpu == 3

Labels == {"INTJ", "ENFP"}

\* '', 'a|||D', '|||', 'a||||', and the missing value
Posts ==
    {<<>>, <<"a", "|", "|", "|", "D">>, <<"|", "|", "|">>,
     <<"a", "|", "|", "|", "|">>, nan}

Rows == [type : Labels, posts : Posts]

RECURSIVE Datasets(_)
Datasets(n) ==
    IF n = 0 THEN {<<>>}
    ELSE LET shorter == Datasets(n - 1)
         IN  shorter \cup {Append(d, row) : d \in shorter, row \in Rows}

Init ==
    /\ df \in Datasets(MaxRecords)
    /\ partitions \in 1..MaxCpu
    /\ filter_stopwords = FALSE
    /\ df_subsets = <<>> /\ results = <<>> /\ finished = {} /\ failed = {}
    /\ overtaken = FALSE
    /\ end_df = <<>> /\ token_df = <<>>
    /\ ppc = "start"
    /\ TweetOff /\ StopOff /\ GridOff /\ CliOff /\ RateOff

\* token_df = tokenize_data(df, f)
Tokenize ==
    /\ ppc = "start"
    /\ ~tokenize_data_raises(df)
    /\ \E f \in BOOLEAN :
          /\ filter_stopwords' = f
          /\ token_df' = tokenize_data(df, f)
    /\ ppc' = "tokenized"
    /\ UNCHANGED <<df, partitions, df_subsets, results, finished, failed, overtaken,
                   end_df, tweetVars, stopVars, gridVars, cliVars, rateVars>>

\* tokenize_data(df, f) raises: nothing is assigned to token_df
TokenizeRaises ==
    /\ ppc = "start"
    /\ tokenize_data_raises(df)
    /\ \E f \in BOOLEAN : filter_stopwords' = f
    /\ ppc' = "tokenize_raised"
    /\ UNCHANGED <<df, partitions, df_subsets, results, finished, failed, overtaken,
                   end_df, token_df, tweetVars, stopVars, gridVars, cliVars, rateVars>>

\* lines 320-322
ArraySplit ==
    /\ ppc = "start"
    /\ df_subsets' = array_split(df, partitions)
    /\ results' = [i \in 1..partitions |-> <<>>]
    /\ ppc' = "map"
    /\ UNCHANGED <<df, partitions, finished, failed, overtaken, end_df, token_df,
                   filter_stopwords, tweetVars, stopVars, gridVars, cliVars, rateVars>>

\* line 323, pool.map: the worker of subset i returns func(df_subsets[i]),
\* func being tokenize_data with filter_stopwords at its default
WorkerReturns(i) ==
    /\ ppc = "map"
    /\ i \in 1..partitions
    /\ i \notin finished \cup failed
    /\ ~tokenize_data_raises(df_subsets[i])
    /\ results' = [results EXCEPT ![map_slot(i, Cardinality(finished))] =
                       tokenize_data(df_subsets[i], FALSE)]
    /\ finished' = finished \cup {i}
    /\ overtaken' = (overtaken \/ \E j \in 1..(i - 1) : j \notin finished)
    /\ UNCHANGED <<df, partitions, df_subsets, failed, end_df, token_df, ppc,
                   filter_stopwords, tweetVars, stopVars, gridVars, cliVars, rateVars>>

\* line 323, pool.map: func raises in the worker of subset i; the slot of the
\* subset gets no result
WorkerRaises(i) ==
    /\ ppc = "map"
    /\ i \in 1..partitions
    /\ i \notin finished \cup failed
    /\ tokenize_data_raises(df_subsets[i])
    /\ failed' = failed \cup {i}
    /\ UNCHANGED <<df, partitions, df_subsets, results, finished, overtaken, end_df,
                   token_df, ppc, filter_stopwords, tweetVars, stopVars, gridVars,
                   cliVars, rateVars>>

\* line 323, pool.map raises in parallelize, which catches nothing: the
\* exception leaves parallelize from line 323, before end_df is assigned
MapRaises ==
    /\ ppc = "map"
    /\ finished \cup failed = 1..partitions
    /\ map_raises(failed)
    /\ ppc' = "raised"
    /\ UNCHANGED <<df, partitions, df_subsets, results, finished, failed, overtaken,
                   end_df, token_df, filter_stopwords, tweetVars, stopVars, gridVars,
                   cliVars, rateVars>>

\* line 323, pd.concat, once pool.map has returned its list
Concat ==
    /\ ppc = "map"
    /\ finished \cup failed = 1..partitions
    /\ ~map_raises(failed)
    /\ end_df' = concat(results)
    /\ ppc' = "concat"
    /\ UNCHANGED <<df, partitions, df_subsets, results, finished, failed, overtaken,
                   token_df, filter_stopwords, tweetVars, stopVars, gridVars, cliVars,
                   rateVars>>

\* lines 324-327
CloseJoin ==
    /\ ppc = "concat"
    /\ ppc' = "returned"
    /\ UNCHANGED <<df, partitions, df_subsets, results, finished, failed, overtaken,
                   end_df, token_df, filter_stopwords, tweetVars, stopVars, gridVars,
                   cliVars, rateVars>>

Next ==
    \/ Tokenize
    \/ TokenizeRaises
    \/ ArraySplit
    \/ \E i \in 1..MaxCpu : WorkerReturns(i)
    \/ \E i \in 1..MaxCpu : WorkerRaises(i)
    \/ MapRaises
    \/ Concat
    \/ CloseJoin

Spec == Init /\ [][Next]_vars

(***************************************************************************)
(* SpecGrid: grid_search(clf, parameters, jobs, X, y), lines 188-211.      *)
(* GridSearchCV.fit evaluates the candidates of ParameterGrid(parameters)  *)
(* on n_jobs workers and keeps their scores in grid_scores_, in the order  *)
(* of the grid; the scoring is fixed for a run (mean_score).               *)
(***************************************************************************)
MaxAlpha == 2
MaxJobs == 3

Scores == {0, 1, 2}

\* a grid in the shape of nb_parameters: clf__alpha of n values (named 1..n)
\* and clf__fit_prior (True, False)
Grids ==
    {[clf__alpha |-> [k \in 1..n |-> k], clf__fit_prior |-> <<TRUE, FALSE>>] :
        n \in 1..MaxAlpha}

\* the number of candidates of a grid
NumCandidates(grid) == Len(grid.clf__alpha) * Len(grid.clf__fit_prior)

\* ParameterGrid(param_grid): the product of the value lists, the names
\* sorted, the last name varying fastest
ParameterGrid(grid) ==
    LET nb == Len(grid.clf__fit_prior)
    IN  [c \in 1..NumCandidates(grid) |->
            [clf__alpha |-> grid.clf__alpha[((c - 1) \div nb) + 1],
             clf__fit_prior |-> grid.clf__fit_prior[((c - 1) % nb) + 1]]]

\* a faulty out_slot: the scores kept in the order the evaluations end
out_slot_as_completed(c, ndone) == ndone + 1

\* line 204: the score of candidate c is the c-th of grid_scores_
out_slot(c, ndone) == c

\* a faulty max_from: the later of two equal scores wins
RECURSIVE max_from_last(_, _, _)
max_from_last(scores, k, best) ==
    IF k > Len(scores) THEN best
    ELSE IF scores[k].mean_validation_score >= best.mean_validation_score
         THEN max_from_last(scores, k + 1, scores[k])
         ELSE max_from_last(scores, k + 1, best)

\* line 206, max(..., key = lambda x: x[1]) from the k-th on: a later item
\* replaces the best so far only when its key is greater
RECURSIVE max_from(_, _, _)
max_from(scores, k, best) ==
    IF k > Len(scores) THEN best
    ELSE IF scores[k].mean_validation_score > best.mean_validation_score
         THEN max_from(scores, k + 1, scores[k])
         ELSE max_from(scores, k + 1, best)

\* line 206, max(gs_clf.grid_scores_, key = lambda x: x[1])
max_by_score(scores) == max_from(scores, 2, scores[1])

NoScore == [parameters |-> [clf__alpha |-> 0, clf__fit_prior |-> FALSE],
            mean_validation_score |-> -1]

InitGrid ==
    /\ parameters \in Grids
    /\ mean_score \in [1..NumCandidates(parameters) -> Scores]
    /\ jobs \in 1..MaxJobs
    /\ dispatched = 0
    /\ running = {}
    /\ grid_scores_ = [c \in 1..NumCandidates(parameters) |-> NoScore]
    /\ out_of_order = FALSE
    /\ best_parameters = NoScore.parameters
    /\ score = -1
    /\ gpc = "fit"
    /\ filter_stopwords = FALSE
    /\ TweetOff /\ StopOff /\ ParOff /\ CliOff /\ RateOff

\* line 204, fit: the next candidate of the grid goes to a free worker
Dispatch ==
    /\ gpc = "fit"
    /\ dispatched < NumCandidates(parameters)
    /\ Cardinality(running) < jobs
    /\ dispatched' = dispatched + 1
    /\ running' = running \cup {dispatched + 1}
    /\ UNCHANGED <<parameters, mean_score, jobs, grid_scores_, out_of_order,
                   best_parameters, score, gpc, filter_stopwords, tweetVars,
                   stopVars, parVars, cliVars, rateVars>>

\* line 204, fit: the evaluation of candidate c ends
Complete(c) ==
    /\ gpc = "fit"
    /\ c \in running
    /\ grid_scores_' =
          [grid_scores_ EXCEPT ![out_slot(c, dispatched - Cardinality(running))] =
              [parameters |-> ParameterGrid(parameters)[c],
               mean_validation_score |-> mean_score[c]]]
    /\ running' = running \ {c}
    /\ out_of_order' = (out_of_order \/ \E b \in running : b < c)
    /\ UNCHANGED <<parameters, mean_score, jobs, dispatched, best_parameters, score,
                   gpc, filter_stopwords, tweetVars, stopVars, parVars, cliVars, rateVars>>

\* line 206
SelectBest ==
    /\ gpc = "fit"
    /\ dispatched = NumCandidates(parameters)
    /\ running = {}
    /\ LET best == max_by_score(grid_scores_)
       IN  /\ best_parameters' = best.parameters
           /\ score' = best.mean_validation_score
    /\ gpc' = "best"
    /\ UNCHANGED <<parameters, mean_score, jobs, dispatched, running, grid_scores_,
                   out_of_order, filter_stopwords, tweetVars, stopVars, parVars,
                   cliVars, rateVars>>

\* lines 207-211: the best parameters and the score are printed
PrintBest ==
    /\ gpc = "best"
    /\ gpc' = "done"
    /\ UNCHANGED <<parameters, mean_score, jobs, dispatched, running, grid_scores_,
                   out_of_order, best_parameters, score, filter_stopwords,
                   tweetVars, stopVars, parVars, cliVars, rateVars>>

NextGrid ==
    \/ Dispatch
    \/ \E c \in 1..(2 * MaxAlpha) : Complete(c)
    \/ SelectBest
    \/ PrintBest

SpecGrid == InitGrid /\ [][NextGrid]_vars

(***************************************************************************)
(* The command-line dispatcher, NLPAnalysis.py lines 333-354.              *)
(***************************************************************************)
MaxArgs == 2

\* the keywords the chain of comparisons of lines 335-350 recognizes
Keywords == {"basic", "tokenize", "unique", "cloud", "initial", "NB", "SVM", "NN"}

\* the function each keyword runs
handler_of ==
    [k \in Keywords |->
        CASE k = "basic" -> "basic_output"
          [] k = "tokenize" -> "tokenize_data"
          [] k = "unique" -> "unique_labels_word_freq"
          [] k = "cloud" -> "word_cloud"
          [] k = "initial" -> "initial_model"
          [] k = "NB" -> "naive_bayes_model"
          [] k = "SVM" -> "linear_SVM_model"
          [] k = "NN" -> "neural_network_model"]

\* what a user may type: the keywords, one in the wrong case, and another word
Arguments == Keywords \cup {"nb", "help"}

ArgLists == UNION {[1..n -> Arguments] : n \in 0..MaxArgs}

IncorrectKeyword == "Incorrect keyword; please try again."
IncorrectNumber == "Incorrect number of keywords; please enter only one keyword."

InitCli ==
    /\ filter_stopwords = FALSE
    /\ argv \in {<<"NLPAnalysis.py">> \o args : args \in ArgLists}
    /\ handler = "none"
    /\ message = ""
    /\ exit_status = 0
    /\ cpc = "main"
    /\ TweetOff /\ StopOff /\ ParOff /\ GridOff /\ RateOff

\* lines 334-350: one argument, a recognized keyword: its function is called
CallHandler ==
    /\ cpc = "main"
    /\ Len(argv) = 2
    /\ argv[2] \in Keywords
    /\ handler' = handler_of[argv[2]]
    /\ cpc' = "handler"
    /\ UNCHANGED <<argv, message, exit_status, filter_stopwords, tweetVars, stopVars,
                   parVars, gridVars, rateVars>>

\* the function returns: the script runs off its end, the status is 0
HandlerReturns ==
    /\ cpc = "handler"
    /\ exit_status' = 0
    /\ cpc' = "exited"
    /\ UNCHANGED <<argv, handler, message, filter_stopwords, tweetVars, stopVars,
                   parVars, gridVars, rateVars>>

\* the function raises: nothing catches it, the interpreter ends with status 1
HandlerRaises ==
    /\ cpc = "handler"
    /\ exit_status' = 1
    /\ cpc' = "exited"
    /\ UNCHANGED <<argv, handler, message, filter_stopwords, tweetVars, stopVars,
                   parVars, gridVars, rateVars>>

\* lines 351-352: one argument that is no keyword: the message is printed and
\* the script runs off its end
PrintIncorrectKeyword ==
    /\ cpc = "main"
    /\ Len(argv) = 2
    /\ argv[2] \notin Keywords
    /\ message' = IncorrectKeyword
    /\ exit_status' = 0
    /\ cpc' = "exited"
    /\ UNCHANGED <<argv, handler, filter_stopwords, tweetVars, stopVars, parVars,
                   gridVars, rateVars>>

\* lines 353-354: no argument, or more than one: the message is printed and
\* the script runs off its end
PrintIncorrectNumber ==
    /\ cpc = "main"
    /\ Len(argv) # 2
    /\ message' = IncorrectNumber
    /\ exit_status' = 0
    /\ cpc' = "exited"
    /\ UNCHANGED <<argv, handler, filter_stopwords, tweetVars, stopVars, parVars,
                   gridVars, rateVars>>

NextCli ==
    \/ CallHandler
    \/ HandlerReturns
    \/ HandlerRaises
    \/ PrintIncorrectKeyword
    \/ PrintIncorrectNumber

SpecCli == InitCli /\ [][NextCli]_vars

(***************************************************************************)
(* success_rates(labels, predictions, return_results),                     *)
(* helper_functions.py lines 289-308.                                      *)
(***************************************************************************)
MaxLabels == 3

\* the label set, in the order groupby sorts its keys
Types == <<"ENFP", "INTJ", "ISTP">>

TypeSet == {Types[i] : i \in DOMAIN Types}

\* line 300: labels_pred['predicted'] == labels, row by row
success_column(actual, predicted) ==
    [i \in DOMAIN actual |-> predicted[i] = actual[i]]

\* the rows of one group of groupby('label')
group_rows(actual, type) == {i \in DOMAIN actual : actual[i] = type}

\* a faulty group_names: a group for every label of the set, met or not
group_names_of_set(actual) == Types

\* line 302: groupby('label') has one group for each label that occurs in
\* the column, the keys sorted
group_names(actual) ==
    SelectSeq(Types, LAMBDA type : group_rows(actual, type) # {})

\* line 303: sum(group['success']) / len(group), kept as the pair of the
\* numerator and the denominator
rate(actual, column, type) ==
    <<Cardinality({i \in group_rows(actual, type) : column[i]}),
      Cardinality(group_rows(actual, type))>>

\* the quotient 0/0
NaN == <<0, 0>>

InitRates ==
    /\ filter_stopwords = FALSE
    /\ \E n \in 0..MaxLabels :
          /\ labels \in [1..n -> TypeSet]
          /\ predictions \in [1..n -> TypeSet]
    /\ return_results \in BOOLEAN
    /\ success = <<>>
    /\ pending = <<>>
    /\ fracs = <<>>
    /\ name = "unbound"
    /\ frac = <<>>
    /\ lines = <<>>
    /\ returned = <<>>
    /\ spc = "start"
    /\ TweetOff /\ StopOff /\ ParOff /\ GridOff /\ CliOff

\* lines 298-302: the frame with its success column, the empty mapping, the
\* groups
BuildFrame ==
    /\ spc = "start"
    /\ success' = success_column(labels, predictions)
    /\ fracs' = <<>>
    /\ pending' = group_names(labels)
    /\ spc' = "loop"
    /\ UNCHANGED <<labels, predictions, return_results, name, frac, lines, returned,
                   filter_stopwords, tweetVars, stopVars, parVars, gridVars, cliVars>>

\* lines 302-304: one turn of the loop
NextGroup ==
    /\ spc = "loop"
    /\ pending # <<>>
    /\ name' = Head(pending)
    /\ frac' = rate(labels, success, Head(pending))
    /\ fracs' = [type \in DOMAIN fracs \cup {name'} |->
                    IF type = name' THEN frac' ELSE fracs[type]]
    /\ pending' = Tail(pending)
    /\ UNCHANGED <<labels, predictions, return_results, success, lines, returned, spc,
                   filter_stopwords, tweetVars, stopVars, parVars, gridVars, cliVars>>

\* lines 305-306: return fracs
ReturnFracs ==
    /\ spc = "loop"
    /\ pending = <<>>
    /\ return_results
    /\ returned' = fracs
    /\ spc' = "returned"
    /\ UNCHANGED <<labels, predictions, return_results, success, pending, fracs, name,
                   frac, lines, filter_stopwords, tweetVars, stopVars, parVars,
                   gridVars, cliVars>>

\* lines 307-308: after the loop, one line is printed from name and frac as
\* the loop left them; with no turn of the loop they are unbound and the
\* print raises UnboundLocalError
PrintRate ==
    /\ spc = "loop"
    /\ pending = <<>>
    /\ ~return_results
    /\ IF name = "unbound"
           THEN spc' = "raised" /\ UNCHANGED lines
           ELSE spc' = "printed" /\ lines' = Append(lines, <<name, frac>>)
    /\ UNCHANGED <<labels, predictions, return_results, success, pending, fracs, name,
                   frac, returned, filter_stopwords, tweetVars, stopVars, parVars,
                   gridVars, cliVars>>

NextRates ==
    \/ BuildFrame
    \/ NextGroup
    \/ ReturnFracs
    \/ PrintRate

SpecRates == InitRates /\ [][NextRates]_vars

(***************************************************************************)
(* Claims on the tokenizer (SpecTweet).                                    *)
(***************************************************************************)
\* the tokens of a list, concatenated in order
RECURSIVE Flatten(_)
Flatten(tokens) ==
    IF tokens = <<>> THEN <<>> ELSE Head(tokens) \o Flatten(Tail(tokens))

\* a text with its whitespace removed
Strip(s) == LET solid(c) == c \notin Whitespace IN SelectSeq(s, solid)

HasUpper(token) == \E k \in 1..Len(token) : token[k] \in UpperLetters

\* C4 (the claim as stated): in the pair tokenize_data appends, every token
\* that is an emoticon keeps its case and every other token is lowercased, that
\* is, the tokens are those check_emoticons yields with lowercasing on, and no
\* token that is not an emoticon holds an upper-case letter.
C4_OthersLowercased ==
    tpc = "appended" =>
        /\ ~filter_stopwords => token_list[1] = check_emoticons(findall(tweet), TRUE)
        /\ \A k \in 1..Len(token_list[1]) :
              emoticon_re(token_list[1][k]) \/ ~HasUpper(token_list[1][k])

\* C5 (amended): the tokens of findall cover every non-whitespace character of
\* the tweet, in order and once: the concatenated tokens, whitespace removed,
\* are the tweet, whitespace removed; no token is empty; the empty tweet has
\* no tokens.
C5_TokensCoverText ==
    tpc = "tokenized" =>
        /\ Strip(Flatten(tokenized_tweets)) = Strip(tweet)
        /\ \A k \in 1..Len(tokenized_tweets) : tokenized_tweets[k] # <<>>
        /\ (tweet = <<>> => tokenized_tweets = <<>>)

\* C5 witness: a tweet has been tokenized into a token that holds whitespace
C5_Witness ==
    /\ tpc = "tokenized"
    /\ \E k \in 1..Len(tokenized_tweets) :
          \E j \in 1..Len(tokenized_tweets[k]) : tokenized_tweets[k][j] \in Whitespace

\* C5 (the claim as stated): the concatenated tokens are the tweet with its
\* whitespace removed.
C5_ConcatIsStrippedText ==
    tpc = "tokenized" => Flatten(tokenized_tweets) = Strip(tweet)

(***************************************************************************)
(* Claims on remove_stopwords (SpecStop).                                  *)
(***************************************************************************)
\* C6: filtering is idempotent: a call of remove_stopwords on the list the
\* call before it returned returns that list, and filtering the list a call
\* returned against the stop list of that call changes nothing.
C6_FilterIdempotent ==
    rpc = "returned" =>
        /\ (calls >= 2 /\ text = previous) => clean_words = text
        /\ clean_words_of(clean_words, stop_list) = clean_words

\* C6 witness: two calls have loaded the list and returned, the second on the
\* list the first returned, which is not empty
C6_Witness ==
    /\ rpc = "returned"
    /\ calls = 2
    /\ loads = 2
    /\ text = previous
    /\ text # <<>>

\* C7 (the claim as stated): the process loads the stopword list at most once.
C7_LoadedAtMostOnce == loads <= 1

\* C8 (amended): when the corpus is not installed the fetch is tried once and
\* not again; if it failed the call ends with the LookupError; a call that
\* returns has filtered against the whole stop list.
C8_FetchOnceThenRaise ==
    /\ downloads <= 1
    /\ rpc = "raised" => downloads = 1 /\ ~installed
    /\ rpc = "returned" =>
          /\ stop_list = english_stopwords \cup punctuation
          /\ clean_words = clean_words_of(text, english_stopwords \cup punctuation)

\* C8 witness: the corpus was not installed, the fetch failed and the call
\* raised
C8_Witness == rpc = "raised" /\ downloads = 1 /\ ~installed

\* C8 (the claim as stated): a call that ends with the error has fetched
\* twice (the fetch and one retry), and a call that returns has filtered
\* against the whole stop list.
C8_RetriedOnceThenRaise ==
    /\ rpc = "raised" => downloads = 2
    /\ rpc = "returned" => stop_list = english_stopwords \cup punctuation

(***************************************************************************)
(* Claims on tokenize_data and parallelize (Spec).                         *)
(***************************************************************************)
\* the (row, post) places of a DataFrame, in row order and, within a row, in
\* post order
RECURSIVE PostPlaces(_, _)
PostPlaces(d, r) ==
    IF r > Len(d) THEN <<>>
    ELSE [j \in 1..Len(split(d[r].posts)) |-> <<r, j>>] \o PostPlaces(d, r + 1)

\* out holds one pair per post of d, in order, each with the label of its row
\* and the tokens of its post
OnePairPerPost(d, out, filter) ==
    LET places == PostPlaces(d, 1)
    IN  /\ Len(out) = Len(places)
        /\ \A k \in 1..Len(places) :
              LET r == places[k][1]
                  j == places[k][2]
              IN  out[k] = <<d[r].type, tweet_tokens(split(d[r].posts)[j], filter)>>

\* C1: what parallelize(tokenize_data, df) returns is, pair for pair, what
\* tokenize_data returns for the whole of df, for every number of partitions
\* and every order in which the workers return.
C1_ParallelIsSequential ==
    ppc = "returned" => end_df = tokenize_data(df, FALSE)

\* C1 witness: parallelize has returned pairs from more than one partition,
\* with more partitions than rows, a worker having returned before the worker
\* of an earlier partition
C1_Witness ==
    /\ ppc = "returned"
    /\ overtaken
    /\ partitions > Len(df)
    /\ Len(df) >= 2
    /\ Len(end_df) >= 3

\* C2: tokenize_data emits one pair per post: as many pairs as the rows have
\* posts, in row order and, within a row, in post order, each with the label
\* of the row of its post.
C2_OnePairPerPost ==
    /\ ppc = "tokenized" => OnePairPerPost(df, token_df, filter_stopwords)
    /\ \A i \in finished : OnePairPerPost(df_subsets[i], results[i], FALSE)

\* C2 witness: tokenize_data has returned more pairs than the DataFrame has
\* rows, for rows of different labels
C2_Witness ==
    /\ ppc = "tokenized"
    /\ Len(token_df) > Len(df)
    /\ \E r1, r2 \in 1..Len(df) : df[r1].type # df[r2].type

\* the first pair of row r in the output, less one
RECURSIVE PairsBefore(_, _)
PairsBefore(d, r) ==
    IF r <= 1 THEN 0 ELSE PairsBefore(d, r - 1) + Len(split(d[r - 1].posts))

\* the number of posts of the rows whose text is not empty
RECURSIVE PostsOfSolidRows(_)
PostsOfSolidRows(d) ==
    IF d = <<>> THEN 0
    ELSE (IF Head(d).posts = <<>> THEN 0 ELSE Len(split(Head(d).posts)))
         + PostsOfSolidRows(Tail(d))

\* C3 (amended): a row whose posts is the empty string yields exactly one
\* pair, of its label and the empty token list.
C3_EmptyYieldsOneEmptyPair ==
    ppc = "tokenized" =>
        /\ Len(token_df) = PairsBefore(df, Len(df) + 1)
        /\ \A r \in 1..Len(df) : df[r].posts = <<>> =>
              /\ PairsBefore(df, r + 1) = PairsBefore(df, r) + 1
              /\ token_df[PairsBefore(df, r) + 1] = <<df[r].type, <<>>>>

\* C3 witness: tokenize_data has returned for a DataFrame with a row of empty
\* posts
C3_Witness ==
    ppc = "tokenized" /\ \E r \in 1..Len(df) : df[r].posts = <<>>

\* C3 (the claim as stated): a row whose posts is the empty string yields no
\* pair: the output has as many pairs as the other rows have posts.
C3_EmptyYieldsNoPair ==
    ppc = "tokenized" => Len(token_df) = PostsOfSolidRows(df)

(***************************************************************************)
(* Claims on grid_search (SpecGrid).                                       *)
(***************************************************************************)
\* C9: the parameters grid_search reports are those of a candidate whose mean
\* score is the maximum over the grid, and of the first such candidate in the
\* order of the grid; the score reported is that maximum.
C9_BestIsFirstMaximum ==
    gpc = "done" =>
        \E c \in 1..NumCandidates(parameters) :
            /\ best_parameters = ParameterGrid(parameters)[c]
            /\ score = mean_score[c]
            /\ \A o \in 1..NumCandidates(parameters) : mean_score[o] <= mean_score[c]
            /\ \A o \in 1..(c - 1) : mean_score[o] < mean_score[c]

\* C9 witness: grid_search has reported with two candidates at the maximum,
\* the first of them not the first of the grid
C9_Witness ==
    /\ gpc = "done"
    /\ \E c1, c2 \in 2..NumCandidates(parameters) :
          /\ c1 < c2
          /\ mean_score[c1] = score
          /\ mean_score[c2] = score
          /\ mean_score[1] < score

\* the scores of the candidates as one worker yields them, in grid order
SequentialScores ==
    [c \in 1..NumCandidates(parameters) |->
        [parameters |-> ParameterGrid(parameters)[c],
         mean_validation_score |-> mean_score[c]]]

\* C10: whatever n_jobs is and in whatever order the evaluations end, the
\* parameters and the score reported are those of the sequential search.
C10_SameForEveryJobs ==
    gpc = "done" =>
        /\ best_parameters = max_by_score(SequentialScores).parameters
        /\ score = max_by_score(SequentialScores).mean_validation_score

\* C10 witness: a search on more than one worker, in which an evaluation ended
\* before that of an earlier candidate of the same score, has reported
C10_Witness ==
    /\ gpc = "done"
    /\ jobs > 1
    /\ out_of_order
    /\ \E c1, c2 \in 1..NumCandidates(parameters) :
          c1 < c2 /\ mean_score[c1] = score /\ mean_score[c2] = score


(***************************************************************************)
(* Claims on the command-line dispatcher (SpecCli).                        *)
(***************************************************************************)
\* C11 (the claim as stated): once the script has ended, an unrecognized
\* keyword or a number of arguments other than one has printed a message and
\* ended with a non-zero status, and the status is zero only when a
\* recognized keyword's function was called.
C11_NonZeroUnlessDispatched ==
    cpc = "exited" =>
        /\ (Len(argv) # 2 \/ argv[2] \notin Keywords) =>
               (message # "" /\ exit_status # 0)
        /\ exit_status = 0 => handler # "none"

(***************************************************************************)
(* Claims on success_rates (SpecRates).                                    *)
(***************************************************************************)
\* the labels of the set that do not occur among the actual labels
AbsentTypes == {type \in TypeSet : group_rows(labels, type) = {}}

\* C12 (amended): for a label of the label set with no occurrence among the
\* actual labels success_rates produces no rate: with return_results true
\* the call ends without error and the mapping it returns has no entry for
\* that label, neither zero nor NaN, and every entry it has is a quotient by
\* a positive count.
C12_AbsentLabelHasNoEntry ==
    /\ return_results => spc # "raised"
    /\ spc = "returned" =>
           /\ \A type \in AbsentTypes : type \notin DOMAIN returned
           /\ \A type \in DOMAIN returned : returned[type][2] > 0

\* C12 witness: success_rates has returned a mapping with entries while a
\* label of the set does not occur among the actual labels
C12_Witness ==
    /\ spc = "returned"
    /\ DOMAIN returned # {}
    /\ AbsentTypes # {}

\* C12 (the claim as stated): the mapping returned holds, for a label with no
\* occurrence, the value NaN.
C12_AbsentLabelIsNaN ==
    spc = "returned" =>
        \A type \in AbsentTypes : type \in DOMAIN returned /\ returned[type] = NaN

\* C13 (the claim as stated): the call ends without error, also for empty
\* input; with return_results true the mapping returned has, for every label
\* that occurs, its correct predictions over its occurrences; with
\* return_results false a line with that rate has been printed for every
\* label that occurs.
C13_EveryOccurringLabelReported ==
    /\ spc # "raised"
    /\ spc = "returned" =>
           \A type \in TypeSet \ AbsentTypes :
               /\ type \in DOMAIN returned
               /\ returned[type] = rate(labels, success_column(labels, predictions), type)
    /\ spc = "printed" =>
           \A type \in TypeSet \ AbsentTypes :
               \E i \in DOMAIN lines :
                   lines[i] = <<type, rate(labels, success_column(labels, predictions), type)>>

(***************************************************************************)
(* Claim on a failing worker of parallelize (Spec).                        *)
(***************************************************************************)
\* C14: when the worker of a partition has raised, parallelize concatenates
\* and returns nothing, and once every worker has ended the exception is
\* raised in the caller; parallelize concatenates and returns only when
\* every partition's worker has returned its result.
C14_WorkerFailureFailsAll ==
    /\ failed # {} => (ppc \in {"map", "raised"} /\ end_df = <<>>)
    /\ (ppc = "map" /\ failed # {} /\ finished \cup failed = 1..partitions) =>
           ENABLED MapRaises
    /\ ppc = "raised" => failed # {}
    /\ ppc \in {"concat", "returned"} => (finished = 1..partitions /\ failed = {})

\* C14 witness: parallelize has raised although the worker of another
\* partition had returned pairs
C14_Witness ==
    /\ ppc = "raised"
    /\ failed # {}
    /\ \E i \in finished : results[i] # <<>>
    /\ end_df = <<>>
=============================================================================
